---- MODULE Spec2Model ----
(***************************************************************************)
(* Model of boost::hana's Group type class (include/boost/hana/group/      *)
(* group.hpp): the dispatching methods minus and negate, the minus_mcd     *)
(* default for negate, the operators:: sugar and the built-in instance for *)
(* numeric data types.  A call is evaluated by a small-step machine with   *)
(* an explicit call stack; `trace` logs every call made and `rets` every   *)
(* value returned.  The type class machinery (instance resolution), the    *)
(* Monoid type class and Group::negate_mcd live in headers that are only   *)
(* included by group.hpp; they are modelled from the specification.        *)
(***************************************************************************)
EXTENDS Integers, Sequences, FiniteSets, TLC

VARIABLES decls, status, scen, inp, cpc, regs, stack, ret, trace, rets

vars == <<decls, status, scen, inp, cpc, regs, stack, ret, trace, rets>>

(* ------------------------------ bounds --------------------------------- *)

\* width in bits of int and unsigned; long is one bit wider
IntBits == 4

\* order of the user-defined cyclic group Z/n used as a negate_mcd instance
ZnOrder == 5

(* --------------------------- data types -------------------------------- *)

RECURSIVE Pow2(_)
Pow2(n) == IF n = 0 THEN 1 ELSE 2 * Pow2(n - 1)

Numeric == {"int", "uint", "long"}

\* ptr: an object pointer type; mon: a user Monoid without operator-;
\* zn: a user Monoid with a Group instance built on negate_mcd
Types == Numeric \cup {"ptr", "mon", "zn"}

Bits(t) == IF t = "long" THEN IntBits + 1 ELSE IntBits

IsSigned(t) == t \in {"int", "long"}

MinVal(t) == IF IsSigned(t) THEN 0 - Pow2(Bits(t) - 1) ELSE 0

MaxVal(t) == IF IsSigned(t) THEN Pow2(Bits(t) - 1) - 1 ELSE Pow2(Bits(t)) - 1

Values(t) ==
    IF t \in Numeric THEN MinVal(t)..MaxVal(t)
    ELSE IF t = "zn" THEN 0..(ZnOrder - 1)
    ELSE 0..1

\* an object: its data type, its value, and whether the value is determinate
\* (def = FALSE: the result of an overflowing signed operation)
Val(t, v) == [t |-> t, v |-> v, def |-> TRUE]

Undef(t) == [t |-> t, v |-> 0, def |-> FALSE]

\* datatype_t<decltype(x)>
DataType(x) == x.t

\* x == y on objects: only determinate, equal values compare equal
Equal(a, b) == a.def /\ b.def /\ a.v = b.v

(* ----------------------- built-in arithmetic --------------------------- *)

\* the usual arithmetic conversions on the modelled integer types
CommonType(a, b) ==
    IF a = b THEN a
    ELSE IF "long" \in {a, b} THEN "long"
    ELSE "uint"

\* value of the mathematical integer m reduced modulo 2^Bits(t) into t's range
Wrap(t, m) ==
    LET r == m % Pow2(Bits(t))
    IN  IF IsSigned(t) /\ r > MaxVal(t) THEN r - Pow2(Bits(t)) ELSE r

\* the possible results of the built-in x op y (op is "-" or "+"): unsigned
\* arithmetic wraps; signed overflow is undefined, the build either wraps or
\* yields an indeterminate value
Native(op, x, y) ==
    IF x.t \in Numeric /\ y.t \in Numeric THEN
        LET t == CommonType(x.t, y.t)
            a == Wrap(t, x.v)
            b == Wrap(t, y.v)
            m == IF op = "-" THEN a - b ELSE a + b
        IN  IF ~(x.def /\ y.def) THEN {Undef(t)}
            ELSE IF ~IsSigned(t) THEN {Val(t, Wrap(t, m))}
            ELSE IF m >= MinVal(t) /\ m <= MaxVal(t) THEN {Val(t, m)}
            ELSE {Val(t, Wrap(t, m)), Undef(t)}
    ELSE IF x.t = "ptr" /\ y.t = "ptr" THEN {Val("long", x.v - y.v)}
    ELSE {Val(x.t, IF op = "-" THEN x.v - y.v ELSE x.v + y.v)}

\* does the expression *(X*)0 - *(Y*)0 type-check
HasMinus(X, Y) ==
    \/ X \in Numeric /\ Y \in Numeric
    \/ X = "ptr" /\ Y = "ptr"
    \/ X = "ptr" /\ Y \in Numeric

(* ------------------------------ Monoid --------------------------------- *)

\* are<Monoid, X, Y>()
AreMonoid(X, Y) ==
    \/ X \in Numeric /\ Y \in Numeric
    \/ X = "mon" /\ Y = "mon"
    \/ X = "zn" /\ Y = "zn"

\* zero<G>
Zero(G) == Val(G, 0)

\* plus_impl of the Monoid instance of (DataType(x), DataType(y))
PlusImpl(x, y) ==
    IF x.t = "zn" THEN {Val("zn", (x.v + y.v) % ZnOrder)}
    ELSE IF x.t = "mon" THEN {Val("mon", IF x.v > y.v THEN x.v ELSE y.v)}
    ELSE Native("+", x, y)

(* ------------------------- Group instances ----------------------------- *)

\* the instances a program may declare: the built-in numeric one, a user
\* instance for zn, and a user instance for unsigned types that overlaps
\* the built-in one
Worlds == {{"numeric", "zn"}, {"numeric", "zn", "unsigned"}}

SubtractionProbe(X, Y) ==
    IF HasMinus(X, Y) THEN "well_formed" ELSE "substitution_failure"

\* mutant: the predicate forgets are<Monoid, X, Y>()
NumericPredicateWithoutMonoid(X, Y) ==
    IF SubtractionProbe(X, Y) = "substitution_failure" THEN "false" ELSE "true"

\* mutant: an ill-formed probe is a hard error instead of a failed substitution
NumericPredicateProbeError(X, Y) ==
    IF SubtractionProbe(X, Y) = "substitution_failure" THEN "error"
    ELSE IF AreMonoid(X, Y) THEN "true"
    ELSE "false"

\* Group::instance<X, Y, when<are<Monoid, X, Y>() && (probe, true)>>
NumericPredicate(X, Y) ==
    IF SubtractionProbe(X, Y) = "substitution_failure" THEN "false"
    ELSE IF AreMonoid(X, Y) THEN "true"
    ELSE "false"

Predicate(i, X, Y) ==
    IF i = "numeric" THEN NumericPredicate(X, Y)
    ELSE IF i = "zn" THEN (IF X = "zn" /\ Y = "zn" THEN "true" ELSE "false")
    ELSE (IF X = "uint" /\ Y = "uint" THEN "true" ELSE "false")

Mcd(i) == IF i = "zn" THEN "negate_mcd" ELSE "minus_mcd"

Candidates(D, X, Y) == {i \in D : Predicate(i, X, Y) = "true"}

Failures == {"no_instance", "ambiguous", "hard_error"}

\* mutant: among several candidates the built-in instance wins
ResolveByPrecedence(D, X, Y) ==
    IF \E i \in D : Predicate(i, X, Y) = "error" THEN "hard_error"
    ELSE IF Candidates(D, X, Y) = {} THEN "no_instance"
    ELSE IF "numeric" \in Candidates(D, X, Y) THEN "numeric"
    ELSE CHOOSE i \in Candidates(D, X, Y) : TRUE

\* Group::instance<X, Y>
Resolve(D, X, Y) ==
    IF \E i \in D : Predicate(i, X, Y) = "error" THEN "hard_error"
    ELSE IF Candidates(D, X, Y) = {} THEN "no_instance"
    ELSE IF Cardinality(Candidates(D, X, Y)) > 1 THEN "ambiguous"
    ELSE CHOOSE i \in Candidates(D, X, Y) : TRUE

(* --------------------------- client programs --------------------------- *)

Frame(fn, args, inst, targs) ==
    [fn |-> fn, args |-> args, inst |-> inst, targs |-> targs]

Call(fn, args) == Frame(fn, args, "-", <<>>)

Stmt(fn, refs) == [fn |-> fn, refs |-> refs]

Script(s) ==
    IF s = "equiv" THEN
        <<Stmt("minus", <<"x", "y">>), Stmt("negate", <<"y">>),
          Stmt("plus", <<"x", "r2">>)>>
    ELSE IF s = "laws" THEN
        <<Stmt("negate", <<"x">>), Stmt("plus", <<"x", "r1">>),
          Stmt("plus", <<"r1", "x">>)>>
    ELSE <<Stmt("operator-", IF s = "op_minus" THEN <<"x", "y">> ELSE <<"x">>)>>

Scenarios == {"equiv", "laws", "op_minus", "op_negate"}

Binary(s) == s \in {"equiv", "op_minus"}

Operand(ref) ==
    IF ref = "x" THEN inp[1]
    ELSE IF ref = "y" THEN inp[2]
    ELSE IF ref = "r1" THEN regs[1]
    ELSE regs[2]

Top == stack[1]

Running == status = "running"

At(fn) == Running /\ stack # <<>> /\ ret = <<>> /\ Top.fn = fn

Init ==
    /\ decls \in Worlds
    /\ status = "idle"
    /\ scen = "-"
    /\ inp = <<>>
    /\ cpc = 0
    /\ regs = <<>>
    /\ stack = <<>>
    /\ ret = <<>>
    /\ trace = <<>>
    /\ rets = <<>>

(* ------------------------------ client --------------------------------- *)

\* the client picks a program and its operands
Start ==
    /\ status = "idle"
    /\ \E s \in Scenarios, tx \in Types :
         \E x \in Values(tx) :
            /\ scen' = s
            /\ IF Binary(s)
               THEN \E ty \in Types : \E y \in Values(ty) :
                       inp' = <<Val(tx, x), Val(ty, y)>>
               ELSE inp' = <<Val(tx, x)>>
    /\ status' = "running"
    /\ cpc' = 1
    /\ UNCHANGED <<decls, regs, stack, ret, trace, rets>>

\* the client evaluates its next statement
ClientCall ==
    /\ Running /\ stack = <<>> /\ ret = <<>>
    /\ cpc <= Len(Script(scen))
    /\ LET st == Script(scen)[cpc]
           f  == Call(st.fn, [k \in 1..Len(st.refs) |-> Operand(st.refs[k])])
       IN  /\ stack' = <<f>>
           /\ trace' = Append(trace, f)
    /\ UNCHANGED <<decls, status, scen, inp, cpc, regs, ret, rets>>

\* the client stores the value of the statement
ClientStore ==
    /\ Running /\ stack = <<>> /\ ret # <<>>
    /\ regs' = Append(regs, ret[1])
    /\ ret' = <<>>
    /\ cpc' = cpc + 1
    /\ status' = IF cpc = Len(Script(scen)) THEN "done" ELSE "running"
    /\ UNCHANGED <<decls, scen, inp, stack, trace, rets>>

(* ------------------------- calling convention -------------------------- *)

\* the running function calls f
Push(f) ==
    /\ stack' = <<f>> \o stack
    /\ trace' = Append(trace, f)
    /\ UNCHANGED <<decls, status, scen, inp, cpc, regs, ret, rets>>

\* naming Group::instance<X, Y> failed: the program does not build
Fail(r) ==
    /\ status' = r
    /\ stack' = <<>>
    /\ UNCHANGED <<decls, scen, inp, cpc, regs, ret, trace, rets>>

\* the running function returns v
Leave(v) ==
    /\ ret' = <<v>>
    /\ stack' = Tail(stack)
    /\ rets' = Append(rets, [call |-> Top, val |-> v])
    /\ UNCHANGED <<decls, status, scen, inp, cpc, regs, trace>>

(* ------------------------------- Group --------------------------------- *)

\* mutant: the operands are forwarded in the wrong order
OperatorMinusSwapped ==
    /\ At("operator-") /\ Len(Top.args) = 2
    /\ Push(Call("minus", <<Top.args[2], Top.args[1]>>))

\* operators::operator-(C1 c1, C2 c2)
OperatorMinus ==
    /\ At("operator-") /\ Len(Top.args) = 2
    /\ Push(Call("minus", <<Top.args[1], Top.args[2]>>))

\* operators::operator-(C1 c1)
OperatorNegate ==
    /\ At("operator-") /\ Len(Top.args) = 1
    /\ Push(Call("negate", <<Top.args[1]>>))

\* mutant: minus_impl is handed y and x
MinusSwapped ==
    /\ At("minus")
    /\ LET x == Top.args[1]
           y == Top.args[2]
           i == Resolve(decls, DataType(y), DataType(x))
       IN  IF i \in Failures THEN Fail(i)
           ELSE Push(Frame("minus_impl", <<y, x>>, i, <<DataType(y), DataType(x)>>))

\* minus = [](auto x, auto y)
Minus ==
    /\ At("minus")
    /\ LET x == Top.args[1]
           y == Top.args[2]
           i == Resolve(decls, DataType(x), DataType(y))
       IN  IF i \in Failures THEN Fail(i)
           ELSE Push(Frame("minus_impl", <<x, y>>, i, <<DataType(x), DataType(y)>>))

\* negate = [](auto x)
Negate ==
    /\ At("negate")
    /\ LET x == Top.args[1]
           i == Resolve(decls, DataType(x), DataType(x))
       IN  IF i \in Failures THEN Fail(i)
           ELSE Push(Frame("negate_impl", <<x>>, i, <<DataType(x), DataType(x)>>))

\* mutant: negate_impl computes minus(x, zero<G1>)
MinusMcdNegateImplSwapped ==
    /\ At("negate_impl") /\ Mcd(Top.inst) = "minus_mcd"
    /\ Push(Call("minus", <<Top.args[1], Zero(Top.targs[1])>>))

\* mutant: negate_impl goes back through negate
MinusMcdNegateImplViaNegate ==
    /\ At("negate_impl") /\ Mcd(Top.inst) = "minus_mcd"
    /\ Push(Call("negate", <<Top.args[1]>>))

\* Group::minus_mcd<G1, G2>::negate_impl(X x)
MinusMcdNegateImpl ==
    /\ At("negate_impl") /\ Mcd(Top.inst) = "minus_mcd"
    /\ Push(Call("minus", <<Zero(Top.targs[1]), Top.args[1]>>))

\* Group::instance<X, Y, when<...>>::minus_impl(X x, Y y)
NumericMinusImpl ==
    /\ At("minus_impl") /\ Top.inst = "numeric"
    /\ \E v \in Native("-", Top.args[1], Top.args[2]) : Leave(v)

\* Group::negate_mcd<G1, G2>::minus_impl(X x, Y y), up to its call of negate
NegateMcdMinusImpl ==
    /\ At("minus_impl") /\ Mcd(Top.inst) = "negate_mcd"
    /\ Push(Call("negate", <<Top.args[2]>>))

\* Group::negate_mcd<G1, G2>::minus_impl(X x, Y y), from the return of negate
NegateMcdMinusResume ==
    /\ Running /\ stack # <<>> /\ ret # <<>>
    /\ Top.fn = "minus_impl" /\ Mcd(Top.inst) = "negate_mcd"
    /\ \E v \in PlusImpl(Top.args[1], ret[1]) : Leave(v)

\* negate_impl of the user's instance for zn
ZnNegateImpl ==
    /\ At("negate_impl") /\ Top.inst = "zn"
    /\ Leave(Val("zn", (ZnOrder - Top.args[1].v) % ZnOrder))

\* plus = [](auto x, auto y) of Monoid
Plus ==
    /\ At("plus")
    /\ IF AreMonoid(DataType(Top.args[1]), DataType(Top.args[2]))
       THEN \E v \in PlusImpl(Top.args[1], Top.args[2]) : Leave(v)
       ELSE Fail("no_instance")

Forwarders == {"operator-", "minus", "negate", "negate_impl"}

\* `return f(...)`: the caller hands on the value its callee returned
Return ==
    /\ Running /\ stack # <<>> /\ ret # <<>>
    /\ Top.fn \in Forwarders
    /\ Leave(ret[1])

Next ==
    \/ Start
    \/ ClientCall
    \/ ClientStore
    \/ OperatorMinus
    \/ OperatorNegate
    \/ Minus
    \/ Negate
    \/ MinusMcdNegateImpl
    \/ NumericMinusImpl
    \/ NegateMcdMinusImpl
    \/ NegateMcdMinusResume
    \/ ZnNegateImpl
    \/ Plus
    \/ Return

Spec == Init /\ [][Next]_vars

(* --------------------------- properties -------------------------------- *)

Last == Len(trace)

\* the calls of the dispatching methods of Group
GroupCalls == {k \in 1..Last : trace[k].fn \in {"minus", "negate"}}

\* the data types Group::instance is named with by the call f
DispatchPair(f) ==
    IF f.fn = "minus"
    THEN <<DataType(f.args[1]), DataType(f.args[2])>>
    ELSE <<DataType(f.args[1]), DataType(f.args[1])>>

CandidatesOf(f) == Candidates(decls, DispatchPair(f)[1], DispatchPair(f)[2])

\* the call trace[k] has been made and its body has not run yet
Pending(k) == Running /\ k = Last /\ stack # <<>> /\ ret = <<>> /\ Top = trace[k]

\* the call f returned the value v
Returned(f, v) == \E j \in 1..Len(rets) : rets[j].call = f /\ rets[j].val = v

HasReturned(f) == \E j \in 1..Len(rets) : rets[j].call = f

\* the build stopped at the call trace[k], with outcome r, and produced no value
FailedAt(k, r) ==
    /\ k = Last
    /\ status = r
    /\ stack = <<>> /\ ret = <<>>
    /\ ~HasReturned(trace[k])

\* C1: when two or more declared Group instances have a true predicate for
\* the operand types of a call of minus or negate, the call fails as
\* ambiguous; no instance is ever selected among several candidates.
C1_AmbiguityIsAnError ==
    /\ \A k \in GroupCalls :
          Cardinality(CandidatesOf(trace[k])) >= 2 =>
              Pending(k) \/ FailedAt(k, "ambiguous")
    /\ \A k \in 1..Last :
          trace[k].fn \in {"minus_impl", "negate_impl"} =>
              Candidates(decls, trace[k].targs[1], trace[k].targs[2]) = {trace[k].inst}

C1_Witness ==
    /\ status = "ambiguous"
    /\ trace[Last].fn = "minus"
    /\ CandidatesOf(trace[Last]) = {"numeric", "unsigned"}

\* C2: a call of minus on operand types that do not form a Monoid, or more
\* generally for which no declared instance has a true predicate, fails with
\* "no instance" and produces no value.
C2_NoInstanceFails ==
    \A k \in GroupCalls :
        trace[k].fn = "minus" =>
            /\ ~AreMonoid(DispatchPair(trace[k])[1], DispatchPair(trace[k])[2])
                  => CandidatesOf(trace[k]) = {}
            /\ CandidatesOf(trace[k]) = {}
                  => Pending(k) \/ FailedAt(k, "no_instance")

C2_Witness ==
    /\ status = "no_instance"
    /\ trace[Last].fn = "minus"
    /\ DispatchPair(trace[Last]) = <<"ptr", "ptr">>
    /\ regs = <<>>

\* C3: the built-in numeric instance is a candidate for (X, Y) exactly when
\* X and Y form a Monoid and X - Y type-checks; an ill-formed probe makes the
\* predicate false and never stops the build with an error of its own.
C3_NumericApplicability ==
    /\ status # "hard_error"
    /\ \A k \in GroupCalls :
          LET X == DispatchPair(trace[k])[1]
              Y == DispatchPair(trace[k])[2]
              applicable == AreMonoid(X, Y) /\ HasMinus(X, Y)
              selected == k < Last /\ trace[k + 1].inst = "numeric"
          IN  /\ ("numeric" \in CandidatesOf(trace[k])) <=> applicable
              /\ ~Pending(k) =>
                    IF applicable
                    THEN selected \/ FailedAt(k, "ambiguous")
                    ELSE ~selected

C3_Witness ==
    /\ status = "no_instance"
    /\ trace[Last].fn = "minus"
    /\ DispatchPair(trace[Last]) = <<"mon", "mon">>

\* C4: minus(x, y) == plus(x, negate(y)) for all x and y of every Group
\* instance.
C4_MinusIsPlusNegate ==
    (status = "done" /\ scen = "equiv") => Equal(regs[1], regs[3])

\* C5: group laws: plus(x, negate(x)) == zero<G> and
\* plus(negate(x), x) == zero<G> for every x of a Group instance.
C5_GroupLaws ==
    (status = "done" /\ scen = "laws") =>
        /\ Equal(regs[2], Zero(DataType(inp[1])))
        /\ Equal(regs[3], Zero(DataType(inp[1])))

\* C6: the binary operator - makes exactly one call, minus(a, b), and the
\* unary one exactly negate(a); the operator returns the value that call
\* returned, and fails only where that call fails.
C6_OperatorForwards ==
    scen \in {"op_minus", "op_negate"} =>
        /\ Last >= 2 =>
              trace[2] = Call(IF Len(inp) = 2 THEN "minus" ELSE "negate", inp)
        /\ \A j \in 1..Len(rets) :
              rets[j].call.fn = "operator-" =>
                  /\ j > 1
                  /\ rets[j - 1].call = trace[2]
                  /\ rets[j].val = rets[j - 1].val
        /\ status = "done" => regs = <<rets[Len(rets)].val>> /\ Returned(trace[2], regs[1])
        /\ status \in Failures => Last >= 2 /\ ~HasReturned(trace[2])

C6_Witness ==
    /\ status = "done" /\ scen = "op_minus"
    /\ inp = <<Val("int", 5), Val("int", 3)>>
    /\ regs = <<Val("int", 2)>>

\* C7: for an instance built on negate_mcd, which supplies only negate_impl,
\* minus(x, y) resolves and is plus(x, negate(y)).
C7_NegateMcdDerivesMinus ==
    /\ \A j \in 1..Len(rets) :
          LET f == rets[j].call
          IN  (f.fn = "minus_impl" /\ Mcd(f.inst) = "negate_mcd") =>
                 \E i \in 1..(j - 1) :
                    /\ rets[i].call = Call("negate", <<f.args[2]>>)
                    /\ rets[j].val \in PlusImpl(f.args[1], rets[i].val)
    /\ \A k \in GroupCalls :
          (trace[k].fn = "minus" /\ DispatchPair(trace[k]) = <<"zn", "zn">>) =>
              /\ status \notin Failures
              /\ ~Pending(k) => trace[k + 1] =
                    Frame("minus_impl", trace[k].args, "zn", <<"zn", "zn">>)
    /\ (status = "done" /\ scen = "equiv" /\ DataType(inp[1]) = "zn") =>
          Equal(regs[1], regs[3])

C7_Witness ==
    /\ status = "done" /\ scen = "equiv"
    /\ inp = <<Val("zn", 1), Val("zn", 3)>>
    /\ regs[1] = Val("zn", ZnOrder - 2)

\* negate(x) was dispatched to an instance built on minus_mcd
ViaMinusMcd(f) ==
    /\ f.fn = "negate"
    /\ Cardinality(CandidatesOf(f)) = 1
    /\ \A i \in CandidatesOf(f) : Mcd(i) = "minus_mcd"

\* C8: under minus_mcd, negate(x) for x of data type G is dispatched to the
\* instance of (G, G) and returns exactly the value of minus(zero<G>, x).
C8_MinusMcdDerivesNegate ==
    \A k \in GroupCalls :
        LET f == trace[k]
            x == f.args[1]
            G == DataType(x)
        IN  (ViaMinusMcd(f) /\ ~Pending(k)) =>
               /\ k + 1 <= Last
               /\ trace[k + 1].fn = "negate_impl"
               /\ trace[k + 1].args = <<x>>
               /\ trace[k + 1].targs = <<G, G>>
               /\ trace[k + 1].inst \in CandidatesOf(f)
               /\ k + 2 <= Last => trace[k + 2] = Call("minus", <<Zero(G), x>>)
               /\ \A j \in 1..Len(rets) :
                     rets[j].call = f =>
                        \E i \in 1..(j - 1) :
                           /\ rets[i].call = Call("minus", <<Zero(G), x>>)
                           /\ rets[i].val = rets[j].val

C8_Witness ==
    /\ status = "done" /\ scen = "laws"
    /\ inp = <<Val("int", 5)>>
    /\ regs[1] = Val("int", 0 - 5)
    /\ Returned(Call("minus", <<Zero("int"), Val("int", 5)>>), regs[1])

\* C9: on integers the built-in instance's minus(x, y) is the native x - y,
\* negate(x) is the native 0 - x and plus(x, negate(x)) is 0; in particular
\* minus(5, 3) == 2, negate(5) == -5 and plus(5, negate(5)) == 0.
C9_NumericInstance ==
    /\ \A j \in 1..Len(rets) :
          LET f == rets[j].call
          IN  /\ (f.fn = "minus" /\ DispatchPair(f) = <<"int", "int">>) =>
                    rets[j].val \in Native("-", f.args[1], f.args[2])
              /\ (f.fn = "negate" /\ DataType(f.args[1]) = "int") =>
                    rets[j].val \in Native("-", Val("int", 0), f.args[1])
              /\ f = Call("minus", <<Val("int", 5), Val("int", 3)>>) =>
                    rets[j].val = Val("int", 2)
              /\ f = Call("negate", <<Val("int", 5)>>) =>
                    rets[j].val = Val("int", 0 - 5)
    /\ (status = "done" /\ scen = "laws" /\ DataType(inp[1]) = "int") =>
          Equal(regs[2], Val("int", 0))

\* C10: the derived negate never loops: negate_impl of minus_mcd calls minus,
\* which reaches minus_impl of the same instance directly, after which negate
\* returns a value; the call stack stays bounded and no call gets stuck.
C10_DerivationTerminates ==
    /\ Running => ENABLED Next
    /\ Len(stack) <= 6
    /\ \A k \in 1..Last :
          (trace[k].fn = "negate_impl" /\ Mcd(trace[k].inst) = "minus_mcd") =>
              /\ ~Pending(k) => k + 1 <= Last /\ trace[k + 1].fn = "minus"
              /\ k + 2 <= Last =>
                    trace[k + 2] = Frame("minus_impl", trace[k + 1].args,
                                         trace[k].inst, trace[k].targs)
              /\ k + 3 <= Last => \E j \in 1..Len(rets) :
                                     rets[j].call = trace[k] /\ rets[j].val.t \in Numeric
    /\ status = "done" => stack = <<>> /\ Len(regs) = Len(Script(scen))

C10_Witness ==
    /\ status = "done" /\ scen = "op_negate"
    /\ Last = 5
    /\ trace[3].fn = "negate_impl" /\ Mcd(trace[3].inst) = "minus_mcd"
    /\ trace[5].fn = "minus_impl"
    /\ regs = <<Val("long", 7)>>

====
